---- MODULE Spec2Model ----
(***************************************************************************)
(* The auction store (auctionStore.js): a per-item async mutex, the bid    *)
(* evaluation done while holding it, and the reset of the item set.        *)
(*                                                                         *)
(* JavaScript runs one callback to completion, so a placeBid call has two  *)
(* steps: the synchronous prefix up to `await lock.acquire()` (the gate is *)
(* looked up or created and acquire() is called), and the continuation     *)
(* after the await (the try/finally block, which holds no await and so     *)
(* runs as one step and ends with release()).  resetItems is synchronous   *)
(* and may be called by any caller between those steps.                    *)
(*                                                                         *)
(* Time is counted in minutes, the unit of the seed data's durations.      *)
(***************************************************************************)
EXTENDS Integers, Sequences, FiniteSets, TLC

\* ---- bounds of the model ------------------------------------------------
NumCalls == 2
MaxTime == 3

\* ---- JavaScript values ----------------------------------------------------
NULL == "null"
UNDEFINED == "undefined"

\* A bid amount is whatever value the caller passes.  A value is its type, its
\* value as a number (ToNumber) and whether that is NaN.  The strings used
\* are "abc" and decimal numerals of three digits, whose order as strings is
\* their order as numbers; a numeral sorts before "abc".
Num(n) == [type |-> "number", num |-> n, nan |-> FALSE]
NaN == [type |-> "number", num |-> 0, nan |-> TRUE]
Numeral(n) == [type |-> "string", num |-> n, nan |-> FALSE]
Text == [type |-> "string", num |-> 0, nan |-> TRUE]
Undefined == [type |-> "undefined", num |-> 0, nan |-> TRUE]


\* !v
falsy(v) ==
    \/ v.type = "undefined"
    \/ v.type = "number" /\ (v.nan \/ v.num = 0)

\* a <= b
lessOrEqual(a, b) ==
    IF a.type = "string" /\ b.type = "string"
    THEN IF a.nan THEN b.nan
         ELSE b.nan \/ a.num <= b.num
    ELSE ~a.nan /\ ~b.nan /\ a.num <= b.num

Calls == 1..NumCalls
Bidders == {"A", "B"}
\* the amounts a caller bids in the typed specifications (numbers)
BidAmounts == {Num(250), Num(450)}
\* ids a caller may name: two seeded items and one id that is not seeded
ItemIds == {"item-003", "item-006", "item-999"}
\* an async-mutex object is named by a number; 0 is "no entry in the map"
MutexIds == 1..(NumCalls + 2)


VARIABLES
    now,           \* Date.now(), in minutes
    auctionItems,  \* the store: a sequence of item records
    itemLocks,     \* Map itemId -> Mutex (0: no entry)
    mutexes,       \* the Mutex objects: locked flag and FIFO queue of waiters
    calls,         \* the placeBid calls: position, arguments, result
    resetDuring,   \* history: resetItems ran after some placeBid call was made
    handlers,      \* the BID_PLACED handler runs: position, acknowledgements
                   \* sent, events emitted
    returned,      \* what the latest call of getAllItems or getItemById returned
    ended,         \* history: the itemIds for which placeBid returned AUCTION_ENDED
    client,        \* a client: its own clock and its useServerTime state
    jobs           \* the job queue: the calls whose placeBid promise has
                   \* settled and whose handler has not resumed yet, in order

vars == <<now, auctionItems, itemLocks, mutexes, calls, resetDuring, handlers,
          returned, ended, client, jobs>>

\* ---- the seed data --------------------------------------------------------
\* mutant: the end times are not recomputed from the clock
createSampleItemsStaleEnd(t) ==
    << [id |-> "item-003", startingPrice |-> Num(200), currentBid |-> Num(200),
        highestBidderId |-> NULL, auctionEndTime |-> 3, bidHistory |-> <<>>],
       [id |-> "item-006", startingPrice |-> Num(400), currentBid |-> Num(400),
        highestBidderId |-> NULL, auctionEndTime |-> 4, bidHistory |-> <<>>] >>

createSampleItems(t) ==
    << [id |-> "item-003", startingPrice |-> Num(200), currentBid |-> Num(200),
        highestBidderId |-> NULL, auctionEndTime |-> t + 3, bidHistory |-> <<>>],
       [id |-> "item-006", startingPrice |-> Num(400), currentBid |-> Num(400),
        highestBidderId |-> NULL, auctionEndTime |-> t + 4, bidHistory |-> <<>>] >>

\* auctionItems.find(i => i.id === itemId): index of the first match, 0 if none
\* mutant: an id that matches no item resolves to the first item
findOrFirst(items, itemId) ==
    IF \E k \in 1..Len(items) : items[k].id = itemId
    THEN CHOOSE k \in 1..Len(items) :
            /\ items[k].id = itemId
            /\ \A j \in 1..(k - 1) : items[j].id # itemId
    ELSE 1

find(items, itemId) ==
    IF \E k \in 1..Len(items) : items[k].id = itemId
    THEN CHOOSE k \in 1..Len(items) :
            /\ items[k].id = itemId
            /\ \A j \in 1..(k - 1) : items[j].id # itemId
    ELSE 0

\* ---- results of placeBid --------------------------------------------------
\* an absent number or object is the empty sequence, a present one <<value>>
Rejected(err, cb) ==
    [success |-> FALSE, error |-> err, currentBid |-> cb, item |-> <<>>,
     previousBidderId |-> UNDEFINED]

Accepted(item, prev) ==
    [success |-> TRUE, error |-> UNDEFINED, currentBid |-> <<>>,
     item |-> << [id |-> item.id, currentBid |-> item.currentBid,
                  highestBidderId |-> item.highestBidderId,
                  auctionEndTime |-> item.auctionEndTime] >>,
     previousBidderId |-> prev]

\* the checks passed: update the item and build the value returned
\* mutant: the Bid record is not appended
acceptNoPush(items, k, bidderId, bidAmount, serverTime) ==
    LET previousBidderId == items[k].highestBidderId
        item == [items[k] EXCEPT !.currentBid = bidAmount,
                                 !.highestBidderId = bidderId]
    IN [items |-> [items EXCEPT ![k] = item],
        result |-> Accepted(item, previousBidderId)]

\* mutant: highestBidderId is not updated
acceptKeepsBidder(items, k, bidderId, bidAmount, serverTime) ==
    LET previousBidderId == items[k].highestBidderId
        item == [items[k] EXCEPT
                   !.currentBid = bidAmount,
                   !.bidHistory = Append(@, [bidderId |-> bidderId,
                                             amount |-> bidAmount,
                                             timestamp |-> serverTime])]
    IN [items |-> [items EXCEPT ![k] = item],
        result |-> Accepted(item, previousBidderId)]

\* mutant: the Bid record carries the bid that was current before
acceptStaleRecord(items, k, bidderId, bidAmount, serverTime) ==
    LET previousBidderId == items[k].highestBidderId
        item == [items[k] EXCEPT
                   !.currentBid = bidAmount,
                   !.highestBidderId = bidderId,
                   !.bidHistory = Append(@, [bidderId |-> bidderId,
                                             amount |-> items[k].currentBid,
                                             timestamp |-> serverTime])]
    IN [items |-> [items EXCEPT ![k] = item],
        result |-> Accepted(item, previousBidderId)]

\* mutant: previousBidderId is read after the item is updated
acceptPrevAfter(items, k, bidderId, bidAmount, serverTime) ==
    LET item == [items[k] EXCEPT
                   !.currentBid = bidAmount,
                   !.highestBidderId = bidderId,
                   !.bidHistory = Append(@, [bidderId |-> bidderId,
                                             amount |-> bidAmount,
                                             timestamp |-> serverTime])]
        previousBidderId == item.highestBidderId
    IN [items |-> [items EXCEPT ![k] = item],
        result |-> Accepted(item, previousBidderId)]

\* mutant: the Bid record is put at the front of the history
acceptUnshift(items, k, bidderId, bidAmount, serverTime) ==
    LET previousBidderId == items[k].highestBidderId
        item == [items[k] EXCEPT
                   !.currentBid = bidAmount,
                   !.highestBidderId = bidderId,
                   !.bidHistory = <<[bidderId |-> bidderId,
                                     amount |-> bidAmount,
                                     timestamp |-> serverTime]>> \o @]
    IN [items |-> [items EXCEPT ![k] = item],
        result |-> Accepted(item, previousBidderId)]

accept(items, k, bidderId, bidAmount, serverTime) ==
    LET previousBidderId == items[k].highestBidderId
        item == [items[k] EXCEPT
                   !.currentBid = bidAmount,
                   !.highestBidderId = bidderId,
                   !.bidHistory = Append(@, [bidderId |-> bidderId,
                                             amount |-> bidAmount,
                                             timestamp |-> serverTime])]
    IN [items |-> [items EXCEPT ![k] = item],
        result |-> Accepted(item, previousBidderId)]

\* the try block of placeBid: the new store and the value returned
\* mutant: the deadline itself still counts as open (> for >=)
placeBidTryLateOk(items, itemId, bidderId, bidAmount, serverTime) ==
    LET k == find(items, itemId) IN
    IF k = 0
    THEN [items |-> items, result |-> Rejected("ITEM_NOT_FOUND", <<>>)]
    ELSE IF serverTime > items[k].auctionEndTime
    THEN [items |-> items, result |-> Rejected("AUCTION_ENDED", <<>>)]
    ELSE IF lessOrEqual(bidAmount, items[k].currentBid)
    THEN [items |-> items,
          result |-> Rejected("BID_TOO_LOW", <<items[k].currentBid>>)]
    ELSE accept(items, k, bidderId, bidAmount, serverTime)

\* mutant: a bid equal to the current bid is accepted (< for <=)
placeBidTryEqualOk(items, itemId, bidderId, bidAmount, serverTime) ==
    LET k == find(items, itemId) IN
    IF k = 0
    THEN [items |-> items, result |-> Rejected("ITEM_NOT_FOUND", <<>>)]
    ELSE IF serverTime >= items[k].auctionEndTime
    THEN [items |-> items, result |-> Rejected("AUCTION_ENDED", <<>>)]
    ELSE IF bidAmount # items[k].currentBid
            /\ lessOrEqual(bidAmount, items[k].currentBid)
    THEN [items |-> items,
          result |-> Rejected("BID_TOO_LOW", <<items[k].currentBid>>)]
    ELSE accept(items, k, bidderId, bidAmount, serverTime)

\* mutant: the amount is not compared with the current bid
placeBidTryNoAmountCheck(items, itemId, bidderId, bidAmount, serverTime) ==
    LET k == find(items, itemId) IN
    IF k = 0
    THEN [items |-> items, result |-> Rejected("ITEM_NOT_FOUND", <<>>)]
    ELSE IF serverTime >= items[k].auctionEndTime
    THEN [items |-> items, result |-> Rejected("AUCTION_ENDED", <<>>)]
    ELSE accept(items, k, bidderId, bidAmount, serverTime)

\* mutant: the amount is compared before the deadline is
placeBidTryAmountFirst(items, itemId, bidderId, bidAmount, serverTime) ==
    LET k == find(items, itemId) IN
    IF k = 0
    THEN [items |-> items, result |-> Rejected("ITEM_NOT_FOUND", <<>>)]
    ELSE IF lessOrEqual(bidAmount, items[k].currentBid)
    THEN [items |-> items,
          result |-> Rejected("BID_TOO_LOW", <<items[k].currentBid>>)]
    ELSE IF serverTime >= items[k].auctionEndTime
    THEN [items |-> items, result |-> Rejected("AUCTION_ENDED", <<>>)]
    ELSE accept(items, k, bidderId, bidAmount, serverTime)

\* mutant: the item is the object found when the server started; once
\* resetItems has replaced it, the bid is applied to that discarded object
placeBidTryDiscardedItem(items, itemId, bidderId, bidAmount, serverTime) ==
    LET k == find(items, itemId)
        first == createSampleItems(0)
    IN
    IF k = 0
    THEN [items |-> items, result |-> Rejected("ITEM_NOT_FOUND", <<>>)]
    ELSE IF items[k].auctionEndTime # first[k].auctionEndTime
    THEN IF serverTime >= first[k].auctionEndTime
         THEN [items |-> items, result |-> Rejected("AUCTION_ENDED", <<>>)]
         ELSE IF lessOrEqual(bidAmount, first[k].currentBid)
         THEN [items |-> items,
               result |-> Rejected("BID_TOO_LOW", <<first[k].currentBid>>)]
         ELSE [items |-> items,
               result |-> accept(first, k, bidderId, bidAmount,
                                 serverTime).result]
    ELSE IF serverTime >= items[k].auctionEndTime
    THEN [items |-> items, result |-> Rejected("AUCTION_ENDED", <<>>)]
    ELSE IF lessOrEqual(bidAmount, items[k].currentBid)
    THEN [items |-> items,
          result |-> Rejected("BID_TOO_LOW", <<items[k].currentBid>>)]
    ELSE accept(items, k, bidderId, bidAmount, serverTime)

placeBidTry(items, itemId, bidderId, bidAmount, serverTime) ==
    LET k == find(items, itemId) IN
    IF k = 0
    THEN [items |-> items, result |-> Rejected("ITEM_NOT_FOUND", <<>>)]
    ELSE IF serverTime >= items[k].auctionEndTime
    THEN [items |-> items, result |-> Rejected("AUCTION_ENDED", <<>>)]
    ELSE IF lessOrEqual(bidAmount, items[k].currentBid)
    THEN [items |-> items,
          result |-> Rejected("BID_TOO_LOW", <<items[k].currentBid>>)]
    ELSE accept(items, k, bidderId, bidAmount, serverTime)

\* ---- the gates ------------------------------------------------------------
InFlight(c) == calls[c].pc \in {"holding", "waiting"}

\* a Mutex object still referenced by the map or by a call in flight
Live(m) ==
    \/ \E i \in ItemIds : itemLocks[i] = m
    \/ \E c \in Calls : InFlight(c) /\ calls[c].lock = m

\* new Mutex(): an object nothing refers to
NewMutex == CHOOSE m \in MutexIds : ~Live(m) /\ \A n \in 1..(m - 1) : Live(n)

\* mutant: every call creates its own Mutex
getLockForItemFresh(itemId) == NewMutex

\* mutant: one Mutex serves every item
getLockForItemShared(itemId) ==
    IF \E i \in ItemIds : itemLocks[i] # 0
    THEN itemLocks[CHOOSE i \in ItemIds : itemLocks[i] # 0]
    ELSE NewMutex

getLockForItem(itemId) ==
    IF itemLocks[itemId] = 0 THEN NewMutex ELSE itemLocks[itemId]

\* the item is seeded and its auction has not ended at time t
IsLive(items, itemId, t) ==
    /\ find(items, itemId) # 0
    /\ t < items[find(items, itemId)].auctionEndTime

\* live, queued: history of the call, set when it is made (the item was live
\* then; the call had to wait for the gate)
IdleCall ==
    [pc |-> "idle", itemId |-> "", bidderId |-> "", bidAmount |-> Num(0), lock |-> 0,
     result |-> <<>>, live |-> FALSE, queued |-> FALSE]

\* a run of the BID_PLACED handler; call c of placeBid is the one it makes.
\* sent: what the run has sent ("ACK" or the type of an event), in order
IdleHandler ==
    [pc |-> "idle", bidderId |-> "", callback |-> FALSE, acks |-> <<>>,
     events |-> <<>>, sent |-> <<>>]

\* nothing has been read yet
NoResponse == [op |-> "none", items |-> <<>>]

\* a client whose clock reads 0 and that has not synchronised: useState(0).
\* timeOffset is kept as twice its value, roundTripTime / 2 being a half.
\* Its dashboard is mounted and its socket connected; dash: the position of
\* fetchItems; fetched: the response on its way; items: useState([]);
\* inbox: the UPDATE_BID events on their way to it, in order
IdleClient ==
    [clock |-> 0, pc |-> "idle", clientTime |-> 0, serverTime |-> 0,
     roundTripTime |-> 0, syncedAt |-> 0, twiceTimeOffset |-> 0,
     dash |-> "mounted", fetched |-> <<>>, items |-> <<>>, inbox |-> <<>>]

Init ==
    /\ now = 0
    /\ auctionItems = createSampleItems(0)
    /\ itemLocks = [i \in ItemIds |-> 0]
    /\ mutexes = [m \in MutexIds |-> [locked |-> FALSE, queue |-> <<>>]]
    /\ calls = [c \in Calls |-> IdleCall]
    /\ resetDuring = FALSE
    /\ handlers = [c \in Calls |-> IdleHandler]
    /\ returned = NoResponse
    /\ ended = {}
    /\ client = IdleClient
    /\ jobs = <<>>

\* The calls are numbered in the order they are made, and bidder tokens are
\* opaque and interchangeable: the first call's bidder is named FirstBidder.
FirstBidder == "A"

\* placeBid up to the await: getLockForItem, then lock.acquire()
Acquire(c, itemId, bidderId, bidAmount) ==
    /\ LET m == getLockForItem(itemId)
           free == ~mutexes[m].locked
       IN /\ itemLocks' = [itemLocks EXCEPT ![itemId] = m]
          /\ mutexes' = [mutexes EXCEPT ![m] =
                            [locked |-> TRUE,
                             queue |-> IF free THEN @.queue ELSE Append(@.queue, c)]]
          /\ calls' = [calls EXCEPT ![c] =
                          [pc |-> IF free THEN "holding" ELSE "waiting",
                           itemId |-> itemId, bidderId |-> bidderId,
                           bidAmount |-> bidAmount, lock |-> m, result |-> <<>>,
                           live |-> IsLive(auctionItems, itemId, now),
                           queued |-> ~free]]
    /\ UNCHANGED <<now, auctionItems, resetDuring, returned, ended, client,
                   jobs>>

\* a caller of the store calls placeBid
Invoke(c, itemId, bidderId, bidAmount) ==
    /\ calls[c].pc = "idle"
    /\ \A d \in 1..(c - 1) : calls[d].pc # "idle"
    /\ c = 1 => bidderId = FirstBidder
    /\ Acquire(c, itemId, bidderId, bidAmount)
    /\ UNCHANGED handlers

\* mutant: release() is skipped when the try block returns a rejection
EvaluateNoRelease(c) ==
    /\ calls[c].pc = "holding"
    /\ LET out == placeBidTry(auctionItems, calls[c].itemId, calls[c].bidderId,
                              calls[c].bidAmount, now)
           m == calls[c].lock
           q == mutexes[m].queue
           kept == ~out.result.success
       IN /\ auctionItems' = out.items
          /\ mutexes' = [mutexes EXCEPT ![m] =
                            IF kept THEN @
                            ELSE IF q = <<>> THEN [locked |-> FALSE, queue |-> <<>>]
                            ELSE [locked |-> TRUE, queue |-> Tail(q)]]
          /\ calls' = [d \in Calls |->
                          IF d = c
                          THEN [IdleCall EXCEPT !.pc = "done",
                                                !.result = <<out.result>>,
                                                !.live = calls[c].live,
                                                !.queued = calls[c].queued]
                          ELSE IF ~kept /\ q # <<>> /\ d = Head(q)
                          THEN [calls[d] EXCEPT !.pc = "holding"]
                          ELSE calls[d]]
    /\ jobs' = IF handlers[c].pc = "awaiting" THEN Append(jobs, c) ELSE jobs
    /\ UNCHANGED <<now, itemLocks, resetDuring, handlers, returned, ended,
                   client>>

\* the continuation: the try block, then release() in the finally block.  The
\* return settles the promise of placeBid: a handler that awaits it is queued
\* as a job
Continue(c) ==
    /\ calls[c].pc = "holding"
    /\ LET out == placeBidTry(auctionItems, calls[c].itemId, calls[c].bidderId,
                              calls[c].bidAmount, now)
           m == calls[c].lock
           q == mutexes[m].queue
       IN /\ auctionItems' = out.items
          /\ mutexes' = [mutexes EXCEPT ![m] =
                            IF q = <<>> THEN [locked |-> FALSE, queue |-> <<>>]
                            ELSE [locked |-> TRUE, queue |-> Tail(q)]]
          /\ calls' = [d \in Calls |->
                          IF d = c
                          THEN [IdleCall EXCEPT !.pc = "done",
                                                !.result = <<out.result>>,
                                                !.live = calls[c].live,
                                                !.queued = calls[c].queued]
                          ELSE IF q # <<>> /\ d = Head(q)
                          THEN [calls[d] EXCEPT !.pc = "holding"]
                          ELSE calls[d]]
    /\ jobs' = IF handlers[c].pc = "awaiting" THEN Append(jobs, c) ELSE jobs
    /\ UNCHANGED <<now, itemLocks, resetDuring, handlers, returned, client>>

\* mutant: the deadline is tested against the time the client reports
EvaluateClientTime(c) ==
    /\ calls[c].pc = "holding"
    /\ LET out == placeBidTry(auctionItems, calls[c].itemId, calls[c].bidderId,
                              calls[c].bidAmount,
                              (2 * client.clock + client.twiceTimeOffset) \div 2)
           m == calls[c].lock
           q == mutexes[m].queue
       IN /\ auctionItems' = out.items
          /\ mutexes' = [mutexes EXCEPT ![m] =
                            IF q = <<>> THEN [locked |-> FALSE, queue |-> <<>>]
                            ELSE [locked |-> TRUE, queue |-> Tail(q)]]
          /\ calls' = [d \in Calls |->
                          IF d = c
                          THEN [IdleCall EXCEPT !.pc = "done",
                                                !.result = <<out.result>>,
                                                !.live = calls[c].live,
                                                !.queued = calls[c].queued]
                          ELSE IF q # <<>> /\ d = Head(q)
                          THEN [calls[d] EXCEPT !.pc = "holding"]
                          ELSE calls[d]]
    /\ jobs' = IF handlers[c].pc = "awaiting" THEN Append(jobs, c) ELSE jobs
    /\ UNCHANGED <<now, itemLocks, resetDuring, handlers, returned, ended,
                   client>>

\* the continuation of a call of placeBid
Evaluate(c) == Continue(c) /\ UNCHANGED ended

\* mutant: resetItems also discards the waiters of every Mutex
ResetDropsWaiters ==
    /\ auctionItems' = createSampleItems(now)
    /\ itemLocks' = [i \in ItemIds |-> 0]
    /\ mutexes' = [m \in MutexIds |-> [mutexes[m] EXCEPT !.queue = <<>>]]
    /\ resetDuring' = (resetDuring \/ \E c \in Calls : calls[c].pc # "idle")
    /\ UNCHANGED <<now, calls, handlers, returned, ended, client, jobs>>

\* resetItems
Reset ==
    /\ auctionItems' = createSampleItems(now)
    /\ itemLocks' = [i \in ItemIds |-> 0]
    /\ resetDuring' = (resetDuring \/ \E c \in Calls : calls[c].pc # "idle")
    /\ UNCHANGED <<now, mutexes, calls, handlers, returned, ended, client,
                   jobs>>

\* mutant: the clock starts over after its last reading
TickWrap ==
    /\ now' = (now + 1) % (MaxTime + 1)
    /\ UNCHANGED <<auctionItems, itemLocks, mutexes, calls, resetDuring,
                   handlers, returned, ended, client, jobs>>

\* the clock advances
Tick ==
    /\ now < MaxTime
    /\ now' = now + 1
    /\ UNCHANGED <<auctionItems, itemLocks, mutexes, calls, resetDuring,
                   handlers, returned, ended, client, jobs>>

\* the store called directly: no handler runs
Next ==
    \/ \E c \in Calls, i \in ItemIds, b \in Bidders, a \in BidAmounts :
          Invoke(c, i, b, a)
    \/ \E c \in Calls : Evaluate(c)
    \/ Reset
    \/ Tick

Spec == Init /\ [][Next]_vars

\* the continuation of a call of placeBid, with the history of the items and
\* deadlines for which AUCTION_ENDED was returned
EvaluateNoted(c) ==
    /\ Continue(c)
    /\ ended' = IF calls'[c].result[1].error = "AUCTION_ENDED"
                THEN ended \cup
                     {<<calls[c].itemId,
                        auctionItems[find(auctionItems,
                                          calls[c].itemId)].auctionEndTime>>}
                ELSE ended

\* the store, with that history kept
NotedNext ==
    \/ \E c \in Calls, i \in ItemIds, b \in Bidders, a \in BidAmounts :
          Invoke(c, i, b, a)
    \/ \E c \in Calls : EvaluateNoted(c)
    \/ Reset
    \/ Tick

NotedSpec == Init /\ [][NotedNext]_vars

\* ---- the readers (auctionStore.js, routes/items.js) -----------------------
\* The seed's title, description and imageUrl are constants of each item that
\* no operation reads or writes; the model's items do not carry them.
\* getAllItems: a copy of every item without its bidHistory, in store order
getAllItems(items) ==
    [k \in 1..Len(items) |->
        [id |-> items[k].id,
         startingPrice |-> items[k].startingPrice,
         currentBid |-> items[k].currentBid,
         highestBidderId |-> items[k].highestBidderId,
         auctionEndTime |-> items[k].auctionEndTime]]

\* getItemById: the item object of the store itself, or nothing (undefined)
getItemById(items, itemId) ==
    IF find(items, itemId) = 0 THEN <<>> ELSE <<items[find(items, itemId)]>>

\* mutant: the list is reversed in place before it is copied
GetAllItemsReversing ==
    /\ auctionItems' = [k \in 1..Len(auctionItems) |->
                            auctionItems[Len(auctionItems) + 1 - k]]
    /\ returned' = [op |-> "getAllItems", items |-> getAllItems(auctionItems')]
    /\ UNCHANGED <<now, itemLocks, mutexes, calls, resetDuring, handlers,
                   ended, client, jobs>>

\* GET /api/items
GetAllItems ==
    /\ returned' = [op |-> "getAllItems", items |-> getAllItems(auctionItems)]
    /\ UNCHANGED <<now, auctionItems, itemLocks, mutexes, calls, resetDuring,
                   handlers, ended, client, jobs>>

\* GET /api/items/:id (404 when nothing is found)
GetItemById(itemId) ==
    /\ returned' = [op |-> "getItemById",
                    items |-> getItemById(auctionItems, itemId)]
    /\ UNCHANGED <<now, auctionItems, itemLocks, mutexes, calls, resetDuring,
                   handlers, ended, client, jobs>>

\* the store with its readers
ReadNext ==
    \/ \E c \in Calls, i \in ItemIds, b \in Bidders, a \in BidAmounts :
          Invoke(c, i, b, a)
    \/ \E c \in Calls : Evaluate(c)
    \/ Reset
    \/ Tick
    \/ GetAllItems
    \/ \E i \in ItemIds : GetItemById(i)

ReadSpec == Init /\ [][ReadNext]_vars

\* ---- the client's clock (useServerTime.js, CountdownTimer) ----------------
\* The client's Date.now() is its own clock; it advances on its own.
ClientTick ==
    /\ client.clock < MaxTime
    /\ client' = [client EXCEPT !.clock = @ + 1]
    /\ UNCHANGED <<now, auctionItems, itemLocks, mutexes, calls, resetDuring,
                   handlers, returned, ended, jobs>>

\* syncTime: note the local time and emit GET_SERVER_TIME
SyncTime ==
    /\ client.pc \in {"idle", "synced"}
    /\ client' = [client EXCEPT !.pc = "asked", !.clientTime = client.clock]
    /\ UNCHANGED <<now, auctionItems, itemLocks, mutexes, calls, resetDuring,
                   handlers, returned, ended, jobs>>

\* the server's GET_SERVER_TIME handler: callback({serverTime: getServerTime()})
GetServerTime ==
    /\ client.pc = "asked"
    /\ client' = [client EXCEPT !.pc = "answered", !.serverTime = now]
    /\ UNCHANGED <<now, auctionItems, itemLocks, mutexes, calls, resetDuring,
                   handlers, returned, ended, jobs>>

\* mutant: the offset of the README, serverTime - clientTime + roundTripTime / 2
SyncDoneFromSendTime(t) ==
    /\ client.pc = "answered"
    /\ t \in {client.clock, client.clock + 1} /\ t <= MaxTime
    /\ LET roundTripTime == client.clock - client.clientTime
       IN client' = [client EXCEPT
                        !.pc = "synced",
                        !.clock = t,
                        !.roundTripTime = roundTripTime,
                        !.syncedAt = t,
                        !.twiceTimeOffset = 2 * client.serverTime
                                            - 2 * client.clientTime
                                            + roundTripTime]
    /\ UNCHANGED <<now, auctionItems, itemLocks, mutexes, calls, resetDuring,
                   handlers, returned, ended, jobs>>

\* The acknowledgement arrives.  The callback reads Date.now() twice: for
\* roundTripTime and again, as t, for the offset; the clock may have advanced
\* in between.  serverTime is a time since the epoch and so never falsy.
SyncDone(t) ==
    /\ client.pc = "answered"
    /\ t \in {client.clock, client.clock + 1} /\ t <= MaxTime
    /\ LET roundTripTime == client.clock - client.clientTime
           twiceEstimatedServerTime == 2 * client.serverTime + roundTripTime
       IN client' = [client EXCEPT
                        !.pc = "synced",
                        !.clock = t,
                        !.roundTripTime = roundTripTime,
                        !.syncedAt = t,
                        !.twiceTimeOffset = twiceEstimatedServerTime - 2 * t]
    /\ UNCHANGED <<now, auctionItems, itemLocks, mutexes, calls, resetDuring,
                   handlers, returned, ended, jobs>>

\* twice what the client takes the server time to be: Date.now() + timeOffset
twiceServerNow(cl) == 2 * cl.clock + cl.twiceTimeOffset

\* CountdownTimer: the client shows the auction as ended
countdownEnded(cl, endTime) == 2 * endTime - twiceServerNow(cl) <= 0

\* setTimeOffset: the offset is client state, which its user can set at will
SetTimeOffset(o) ==
    /\ client' = [client EXCEPT !.twiceTimeOffset = 2 * o]
    /\ UNCHANGED <<now, auctionItems, itemLocks, mutexes, calls, resetDuring,
                   handlers, returned, ended, jobs>>

\* the offsets a manipulated client is given
TimeOffsets == {0 - MaxTime, 0, MaxTime}

\* time synchronisation between one client and the server
SyncNext ==
    \/ Tick
    \/ ClientTick
    \/ SyncTime
    \/ GetServerTime
    \/ \E t \in 0..MaxTime : SyncDone(t)

SyncSpec == Init /\ [][SyncNext]_vars

\* the store, with a client whose clock and offset are whatever it likes
ClientNext ==
    \/ \E c \in Calls, i \in ItemIds, b \in Bidders, a \in BidAmounts :
          Invoke(c, i, b, a)
    \/ \E c \in Calls : Evaluate(c)
    \/ Reset
    \/ Tick
    \/ ClientTick
    \/ \E o \in TimeOffsets : SetTimeOffset(o)

ClientSpec == Init /\ [][ClientNext]_vars

\* ---- the BID_PLACED handler (bidHandler.js) -------------------------------
\* !x for an itemId or a bidderId of the payload
missing(x) == x = UNDEFINED \/ x = NULL \/ x = ""

\* the acknowledgements passed to the callback (the message text is left out)
invalidAck ==
    [success |-> FALSE, error |-> "INVALID_DATA", currentBid |-> <<>>,
     item |-> <<>>]

successAck(result) ==
    [success |-> TRUE, error |-> UNDEFINED, currentBid |-> <<>>,
     item |-> result.item]

\* mutant: the current bid is not passed on
failureAckNoBid(result) ==
    [success |-> FALSE, error |-> result.error, currentBid |-> <<>>,
     item |-> <<>>]

failureAck(result) ==
    [success |-> FALSE, error |-> result.error, currentBid |-> result.currentBid,
     item |-> <<>>]

UpdateBid(result, serverTime) ==
    [type |-> "UPDATE_BID", itemId |-> result.item[1].id,
     currentBid |-> result.item[1].currentBid,
     highestBidderId |-> result.item[1].highestBidderId,
     previousBidderId |-> result.previousBidderId,
     serverTime |-> serverTime]

Outbid(result) ==
    [type |-> "OUTBID", itemId |-> result.item[1].id,
     outbidUserId |-> result.previousBidderId,
     newBid |-> result.item[1].currentBid,
     newBidderId |-> result.item[1].highestBidderId]

\* the events io.emit sends for a result of placeBid, in order
\* mutant: OUTBID is sent whenever there was a previous leader
emitsOutbidOnRaise(result, bidderId, serverTime) ==
    IF ~result.success THEN <<>>
    ELSE <<UpdateBid(result, serverTime)>>
         \o (IF ~missing(result.previousBidderId)
             THEN <<Outbid(result)>> ELSE <<>>)

\* mutant: UPDATE_BID is sent only when a leader is displaced
emitsUpdateOnOutbid(result, bidderId, serverTime) ==
    IF ~result.success THEN <<>>
    ELSE IF ~missing(result.previousBidderId) /\ result.previousBidderId # bidderId
    THEN <<UpdateBid(result, serverTime), Outbid(result)>>
    ELSE <<>>

\* mutant: the broadcast reads the item's current bid from the store
emitsStoreRead(result, bidderId, serverTime) ==
    IF ~result.success THEN <<>>
    ELSE <<[UpdateBid(result, serverTime) EXCEPT
              !.currentBid =
                  auctionItems[find(auctionItems, result.item[1].id)].currentBid]>>
         \o (IF ~missing(result.previousBidderId)
                /\ result.previousBidderId # bidderId
             THEN <<Outbid(result)>> ELSE <<>>)

\* mutant: the broadcast reads the item's leader from the store
emitsStoreLeader(result, bidderId, serverTime) ==
    IF ~result.success THEN <<>>
    ELSE <<[UpdateBid(result, serverTime) EXCEPT
              !.highestBidderId =
                  auctionItems[find(auctionItems,
                                    result.item[1].id)].highestBidderId]>>
         \o (IF ~missing(result.previousBidderId)
                /\ result.previousBidderId # bidderId
             THEN <<Outbid(result)>> ELSE <<>>)

emits(result, bidderId, serverTime) ==
    IF ~result.success THEN <<>>
    ELSE <<UpdateBid(result, serverTime)>>
         \o (IF ~missing(result.previousBidderId)
                /\ result.previousBidderId # bidderId
             THEN <<Outbid(result)>> ELSE <<>>)

\* what the handler sends for a result of placeBid, in the order of its
\* statements: the acknowledgement if there is a callback, then the events
\* mutant: the acknowledgement is sent after the events
sendsAckLast(result, hasCallback, bidderId) ==
    LET events == emits(result, bidderId, 0) IN
    [k \in 1..Len(events) |-> events[k].type]
    \o (IF hasCallback THEN <<"ACK">> ELSE <<>>)

sends(result, hasCallback, bidderId) ==
    LET events == emits(result, bidderId, 0) IN
    (IF hasCallback THEN <<"ACK">> ELSE <<>>)
    \o [k \in 1..Len(events) |-> events[k].type]

\* the acknowledgement for a result of placeBid
ackOf(result) ==
    IF result.success THEN successAck(result) ELSE failureAck(result)

\* mutant: the handler does not test the amount
BidPlacedAmountUnchecked(c, hasData, itemId, bidAmount, bidderId, hasCallback) ==
    /\ handlers[c].pc = "idle"
    /\ \A d \in 1..(c - 1) : handlers[d].pc # "idle"
    /\ (c = 1 /\ ~missing(bidderId)) => bidderId = FirstBidder
    /\ IF ~hasData
       THEN
            /\ handlers' = [handlers EXCEPT ![c].pc = "fault",
                                            ![c].callback = hasCallback]
            /\ UNCHANGED <<now, auctionItems, itemLocks, mutexes, calls,
                           resetDuring, returned, ended, client, jobs>>
       ELSE IF missing(itemId) \/ missing(bidderId)
       THEN /\ handlers' = [handlers EXCEPT
                               ![c].pc = "done",
                               ![c].acks = IF hasCallback THEN <<invalidAck>>
                                           ELSE <<>>,
                               ![c].sent = IF hasCallback THEN <<"ACK">>
                                           ELSE <<>>]
            /\ UNCHANGED <<now, auctionItems, itemLocks, mutexes, calls,
                           resetDuring, returned, ended, client, jobs>>
       ELSE /\ Acquire(c, itemId, bidderId, bidAmount)
            /\ handlers' = [handlers EXCEPT ![c].pc = "awaiting",
                                            ![c].bidderId = bidderId,
                                            ![c].callback = hasCallback]

\* socket.on('BID_PLACED') up to `await placeBid(...)`.  hasData: the event
\* came with a payload object; hasCallback: with an acknowledgement function.
BidPlaced(c, hasData, itemId, bidAmount, bidderId, hasCallback) ==
    /\ handlers[c].pc = "idle"
    /\ \A d \in 1..(c - 1) : handlers[d].pc # "idle"
    /\ (c = 1 /\ ~missing(bidderId)) => bidderId = FirstBidder
    /\ IF ~hasData
       THEN \* destructuring undefined throws; nothing catches it, and the
            \* callback, if there is one, is never called
            /\ handlers' = [handlers EXCEPT ![c].pc = "fault",
                                            ![c].callback = hasCallback]
            /\ UNCHANGED <<now, auctionItems, itemLocks, mutexes, calls,
                           resetDuring, returned, ended, client, jobs>>
       ELSE IF missing(itemId) \/ falsy(bidAmount) \/ missing(bidderId)
       THEN /\ handlers' = [handlers EXCEPT
                               ![c].pc = "done",
                               ![c].acks = IF hasCallback THEN <<invalidAck>>
                                           ELSE <<>>,
                               ![c].sent = IF hasCallback THEN <<"ACK">>
                                           ELSE <<>>]
            /\ UNCHANGED <<now, auctionItems, itemLocks, mutexes, calls,
                           resetDuring, returned, ended, client, jobs>>
       ELSE /\ Acquire(c, itemId, bidderId, bidAmount)
            /\ handlers' = [handlers EXCEPT ![c].pc = "awaiting",
                                            ![c].bidderId = bidderId,
                                            ![c].callback = hasCallback]

\* mutant: the handlers resume in any order
RespondAnyOrder(c) ==
    /\ handlers[c].pc = "awaiting"
    /\ calls[c].pc = "done"
    /\ jobs' = SelectSeq(jobs, LAMBDA d : d # c)
    /\ LET result == calls[c].result[1] IN
       handlers' = [handlers EXCEPT
                       ![c].pc = "done",
                       ![c].bidderId = "",
                       ![c].callback = FALSE,
                       ![c].acks = IF handlers[c].callback THEN <<ackOf(result)>>
                                   ELSE <<>>,
                       ![c].events = emits(result, handlers[c].bidderId, now),
                       ![c].sent = sends(result, handlers[c].callback,
                                         handlers[c].bidderId)]
    /\ UNCHANGED <<now, auctionItems, itemLocks, mutexes, calls, resetDuring,
                   returned, ended, client>>

\* the handler after the await: acknowledge, then emit.  Jobs run in the
\* order they were queued
Resume(c) ==
    /\ handlers[c].pc = "awaiting"
    /\ calls[c].pc = "done"
    /\ jobs # <<>> /\ Head(jobs) = c
    /\ jobs' = Tail(jobs)
    /\ LET result == calls[c].result[1] IN
       handlers' = [handlers EXCEPT
                       ![c].pc = "done",
                       ![c].bidderId = "",
                       ![c].callback = FALSE,
                       ![c].acks = IF handlers[c].callback THEN <<ackOf(result)>>
                                   ELSE <<>>,
                       ![c].events = emits(result, handlers[c].bidderId, now),
                       ![c].sent = sends(result, handlers[c].callback,
                                         handlers[c].bidderId)]
    /\ UNCHANGED <<now, auctionItems, itemLocks, mutexes, calls, resetDuring,
                   returned, ended>>

\* the handler after the await, no client being connected
Respond(c) == Resume(c) /\ UNCHANGED client

\* what a payload may hold where an id is expected, and as its amount
PayloadItemIds == ItemIds \cup {UNDEFINED}
PayloadBidders == Bidders \cup {UNDEFINED}
TypedAmounts == BidAmounts \cup {Num(0), Undefined}
LooseAmounts == {Num(250), Num(-5), NaN, Numeral(300), Text}

\* the server: placeBid is called by the handler only; the amounts are
\* numbers or missing
ServerNext ==
    \/ \E c \in Calls, d \in BOOLEAN, i \in PayloadItemIds, a \in TypedAmounts,
          b \in PayloadBidders, f \in BOOLEAN : BidPlaced(c, d, i, a, b, f)
    \/ \E c \in Calls : Evaluate(c)
    \/ \E c \in Calls : Respond(c)
    \/ Reset
    \/ Tick

ServerSpec == Init /\ [][ServerNext]_vars

\* the server, with payloads whose amount is any value a client can send
LooseNext ==
    \/ \E c \in Calls, d \in BOOLEAN, i \in PayloadItemIds, a \in LooseAmounts,
          b \in PayloadBidders, f \in BOOLEAN : BidPlaced(c, d, i, a, b, f)
    \/ \E c \in Calls : Evaluate(c)
    \/ \E c \in Calls : Respond(c)
    \/ Reset
    \/ Tick

LooseSpec == Init /\ [][LooseNext]_vars

\* ---- the dashboard of a connected client (AuctionDashboard, AuctionCard) ----
\* The client looked at is one that does not itself ask for a reset.
\* fetchItems: GET /api/items is served; the response is on its way
FetchItems ==
    /\ client.dash = "mounted"
    /\ returned' = [op |-> "getAllItems", items |-> getAllItems(auctionItems)]
    /\ client' = [client EXCEPT !.dash = "fetching",
                                !.fetched = getAllItems(auctionItems)]
    /\ UNCHANGED <<now, auctionItems, itemLocks, mutexes, calls, resetDuring,
                   handlers, ended, jobs>>

\* the response arrives: setItems(data.items); the cards mount with it
SetItems ==
    /\ client.dash = "fetching"
    /\ client' = [client EXCEPT !.dash = "loaded", !.fetched = <<>>,
                                !.items = client.fetched]
    /\ UNCHANGED <<now, auctionItems, itemLocks, mutexes, calls, resetDuring,
                   handlers, returned, ended, jobs>>

\* handleBidUpdate (and handleUpdate of the item's card): the item named by
\* the event takes its currentBid and highestBidderId
handleBidUpdate(items, data) ==
    [k \in 1..Len(items) |->
        IF items[k].id = data.itemId
        THEN [items[k] EXCEPT !.currentBid = data.currentBid,
                              !.highestBidderId = data.highestBidderId]
        ELSE items[k]]

\* the next UPDATE_BID on its way arrives at the client
Deliver ==
    /\ client.inbox # <<>>
    /\ client' = [client EXCEPT
                     !.inbox = Tail(@),
                     !.items = handleBidUpdate(@, Head(client.inbox))]
    /\ UNCHANGED <<now, auctionItems, itemLocks, mutexes, calls, resetDuring,
                   handlers, returned, ended, jobs>>

\* the handler after the await: io.emit sends the UPDATE_BID to the client
RespondToAll(c) ==
    /\ Resume(c)
    /\ client' = [client EXCEPT
                     !.inbox = @ \o SelectSeq(handlers'[c].events,
                                              LAMBDA e : e.type = "UPDATE_BID")]

\* the server and a client's dashboard; the requests are those a dashboard
\* sends (a payload with all fields and a callback)
DashboardNext ==
    \/ \E c \in Calls, i \in ItemIds, a \in BidAmounts, b \in Bidders :
          BidPlaced(c, TRUE, i, a, b, TRUE)
    \/ \E c \in Calls : Evaluate(c)
    \/ \E c \in Calls : RespondToAll(c)
    \/ Reset
    \/ Tick
    \/ FetchItems
    \/ SetItems
    \/ Deliver

DashboardSpec == Init /\ [][DashboardNext]_vars

\* ---- the claims -----------------------------------------------------------
Ids(items) == {items[k].id : k \in 1..Len(items)}
Result(c) == calls[c].result[1]
Done(c) == calls[c].pc = "done"
\* the step in which call c runs its try block and releases
EvaluateStep(c) == calls[c].pc = "holding" /\ calls'[c].pc = "done"
\* the calls that hold a granted, unreleased lease for itemId
Holders(itemId) ==
    {c \in Calls : calls[c].pc = "holding" /\ calls[c].itemId = itemId}

\* C1: at any instant at most one placeBid call holds a lease (granted by
\* acquire(), not yet released) for a given itemId, whatever placeBid and
\* reset operations came before.
C1_OneLeasePerItem ==
    \A i \in ItemIds : Cardinality(Holders(i)) <= 1

\* C2: a placeBid whose try block runs at or after the item's auctionEndTime
\* returns AUCTION_ENDED and leaves the store unchanged, and every Bid record
\* of an item has a timestamp before the item's auctionEndTime.
C2_HistoryBeforeEnd ==
    \A k \in 1..Len(auctionItems) :
        \A j \in 1..Len(auctionItems[k].bidHistory) :
            auctionItems[k].bidHistory[j].timestamp < auctionItems[k].auctionEndTime

C2_EndedStep ==
    \A c \in Calls :
        LET k == find(auctionItems, calls[c].itemId) IN
        (EvaluateStep(c) /\ k # 0 /\ now >= auctionItems[k].auctionEndTime)
            => /\ calls'[c].result[1].error = "AUCTION_ENDED"
               /\ ~calls'[c].result[1].success
               /\ auctionItems' = auctionItems

C2_DeadlineEnforced == [][C2_EndedStep]_vars /\ []C2_HistoryBeforeEnd

\* a call made while the auction was live waited for the gate and was
\* evaluated after the deadline
C2_Witness ==
    \E c \in Calls :
        /\ Done(c) /\ calls[c].live /\ calls[c].queued
        /\ Result(c).error = "AUCTION_ENDED"

\* C3: a placeBid evaluated on a seeded item whose auction has not ended is
\* accepted exactly when its amount is strictly greater than the item's
\* currentBid at the moment its try block runs; otherwise it returns
\* BID_TOO_LOW.
C3_Step ==
    \A c \in Calls :
        LET k == find(auctionItems, calls[c].itemId) IN
        (EvaluateStep(c) /\ k # 0 /\ now < auctionItems[k].auctionEndTime)
            => /\ calls'[c].result[1].success
                    <=> (calls[c].bidAmount.num > auctionItems[k].currentBid.num)
               /\ ~calls'[c].result[1].success
                    => calls'[c].result[1].error = "BID_TOO_LOW"

C3_AcceptedIffHigher == [][C3_Step]_vars

\* a call that waited for the gate behind an accepted bid of the same
\* amount is rejected
C3_Witness ==
    \E c, d \in Calls :
        /\ Done(c) /\ Result(c).success
        /\ Done(d) /\ calls[d].queued /\ calls[d].live
        /\ Result(d).error = "BID_TOO_LOW"
        /\ Result(d).currentBid = <<Result(c).item[1].currentBid>>

\* C4: once every placeBid call made has returned, with no reset since the
\* first of them was made, each item's currentBid is the largest accepted
\* amount and its bidHistory is as long as the number of calls accepted on it.
AcceptedOn(itemId) ==
    {c \in Calls : Done(c) /\ Result(c).success /\ Result(c).item[1].id = itemId}

C4_FinalState ==
    (~resetDuring /\ \A c \in Calls : ~InFlight(c))
        => \A k \in 1..Len(auctionItems) :
              LET acc == AcceptedOn(auctionItems[k].id) IN
              /\ Len(auctionItems[k].bidHistory) = Cardinality(acc)
              /\ acc # {} =>
                    /\ \E c \in acc :
                          auctionItems[k].currentBid = Result(c).item[1].currentBid
                    /\ \A c \in acc :
                          auctionItems[k].currentBid.num >= Result(c).item[1].currentBid.num

\* all calls were made on one item, one of them waited for the gate, and
\* more than one was accepted
C4_Witness ==
    /\ ~resetDuring
    /\ \A c \in Calls : Done(c)
    /\ \E c \in Calls : calls[c].queued
    /\ \E k \in 1..Len(auctionItems) :
          Cardinality(AcceptedOn(auctionItems[k].id)) >= 2

\* C5: an evaluated bid never lowers an item's currentBid, and currentBid is
\* the startingPrice whenever the bidHistory is empty.
C5_Step ==
    (\E c \in Calls : EvaluateStep(c))
        => /\ Len(auctionItems') = Len(auctionItems)
           /\ \A k \in 1..Len(auctionItems) :
                 auctionItems'[k].currentBid.num >= auctionItems[k].currentBid.num

C5_StartingPrice ==
    \A k \in 1..Len(auctionItems) :
        auctionItems[k].bidHistory = <<>>
            => auctionItems[k].currentBid = auctionItems[k].startingPrice

C5_CurrentBidMonotone == [][C5_Step]_vars /\ []C5_StartingPrice

\* one item has had two bids accepted while another has none
C5_Witness ==
    \E k, j \in 1..Len(auctionItems) :
        /\ Len(auctionItems[k].bidHistory) = 2
        /\ auctionItems[k].bidHistory[1].amount.num
              < auctionItems[k].bidHistory[2].amount.num
        /\ auctionItems[j].bidHistory = <<>>

\* C6: highestBidderId is null exactly when no bid has been accepted since
\* the item was seeded (empty bidHistory, currentBid = startingPrice).
C6_NullIffNoBid ==
    \A k \in 1..Len(auctionItems) :
        (auctionItems[k].highestBidderId = NULL)
            <=> /\ auctionItems[k].bidHistory = <<>>
                /\ auctionItems[k].currentBid = auctionItems[k].startingPrice

\* one item has a leader, and a rejected bid has left the other without one
C6_Witness ==
    /\ \E k, j \in 1..Len(auctionItems) :
          /\ auctionItems[k].highestBidderId \in Bidders
          /\ auctionItems[j].highestBidderId = NULL
    /\ \E c \in Calls : Done(c) /\ ~Result(c).success

\* C7: a try block that changes an item's (currentBid, highestBidderId)
\* appends exactly one Bid record, with that amount and bidder, to that item's
\* history; one that rejects changes nothing; so the last record of a
\* non-empty history carries the item's currentBid and highestBidderId.
C7_Step ==
    \A c \in Calls :
        EvaluateStep(c)
            => /\ Len(auctionItems') = Len(auctionItems)
               /\ ~calls'[c].result[1].success => auctionItems' = auctionItems
               /\ \A k \in 1..Len(auctionItems) :
                     LET old == auctionItems[k]
                         new == auctionItems'[k]
                     IN IF <<new.currentBid, new.highestBidderId>>
                            # <<old.currentBid, old.highestBidderId>>
                        THEN /\ Len(new.bidHistory) = Len(old.bidHistory) + 1
                             /\ SubSeq(new.bidHistory, 1, Len(old.bidHistory))
                                    = old.bidHistory
                        ELSE new.bidHistory = old.bidHistory

C7_LastRecord ==
    \A k \in 1..Len(auctionItems) :
        LET h == auctionItems[k].bidHistory IN
        h # <<>> => /\ h[Len(h)].amount = auctionItems[k].currentBid
                    /\ h[Len(h)].bidderId = auctionItems[k].highestBidderId

C7_MutationPairedWithRecord == [][C7_Step]_vars /\ []C7_LastRecord

\* an item has a record, and a bid on it that did not exceed the recorded
\* amount was rejected
C7_Witness ==
    \E k \in 1..Len(auctionItems), c \in Calls :
        /\ Len(auctionItems[k].bidHistory) = 1
        /\ Done(c) /\ Result(c).error = "BID_TOO_LOW"
        /\ Result(c).currentBid = <<auctionItems[k].bidHistory[1].amount>>

\* C8: right after resetItems every item has currentBid = startingPrice, a
\* null highestBidderId, an empty bidHistory and an auctionEndTime later than
\* the clock; a reset applied to a freshly reset store leaves the bid state
\* as it was.
Fresh(item) ==
    /\ item.currentBid = item.startingPrice
    /\ item.highestBidderId = NULL
    /\ item.bidHistory = <<>>

BidState(items) ==
    [k \in 1..Len(items) |->
        <<items[k].id, items[k].currentBid, items[k].highestBidderId,
          items[k].bidHistory>>]

C8_Step ==
    Reset => /\ \A k \in 1..Len(auctionItems') :
                   /\ Fresh(auctionItems'[k])
                   /\ auctionItems'[k].auctionEndTime > now'
             /\ (\A k \in 1..Len(auctionItems) : Fresh(auctionItems[k]))
                   => BidState(auctionItems') = BidState(auctionItems)

C8_ResetRestoresSeed == [][C8_Step]_vars

\* the store is freshly reset, at a time past the first seed deadline, after
\* a bid had been accepted
C8_Witness ==
    /\ now >= 3
    /\ \A k \in 1..Len(auctionItems) :
          Fresh(auctionItems[k]) /\ auctionItems[k].auctionEndTime > now
    /\ \E c \in Calls : Done(c) /\ Result(c).success

\* C9: resetItems takes effect only in states where no placeBid call holds
\* or waits for a gate.
C9_Step == Reset => \A c \in Calls : ~InFlight(c)

C9_ResetOnlyWhenQuiescent == [][C9_Step]_vars

\* C10: an accepted placeBid returns as previousBidderId the item's
\* highestBidderId from just before the bid, and an item view whose
\* currentBid is the amount bid and whose highestBidderId is the bidder.
C10_Step ==
    \A c \in Calls :
        (EvaluateStep(c) /\ calls'[c].result[1].success)
            => LET k == find(auctionItems, calls[c].itemId)
                   r == calls'[c].result[1]
               IN /\ k # 0
                  /\ r.previousBidderId = auctionItems[k].highestBidderId
                  /\ r.item[1].id = calls[c].itemId
                  /\ r.item[1].currentBid = calls[c].bidAmount
                  /\ r.item[1].highestBidderId = calls[c].bidderId

C10_AcceptedResult == [][C10_Step]_vars

\* a first accepted bid returned null, and a later one by another bidder
\* returned the first bidder
C10_Witness ==
    \E c, d \in Calls :
        /\ Done(c) /\ Result(c).success /\ Result(c).previousBidderId = NULL
        /\ Done(d) /\ Result(d).success
        /\ Result(d).previousBidderId = Result(c).item[1].highestBidderId
        /\ Result(d).item[1].highestBidderId # Result(d).previousBidderId

\* a JS value that is a number other than NaN
IsNumber(v) == v.type = "number" /\ ~v.nan

\* the step in which handler c resumes after the await
RespondStep(c) == handlers[c].pc = "awaiting" /\ handlers'[c].pc = "done"

\* C11: placeBid with an amount that is <= the current bid (equal included)
\* of an item that exists and has not ended returns BID_TOO_LOW with the
\* current bid it read, changes no item, and the BID_PLACED handler passes
\* that current bid on in the acknowledgement.
C11_Step ==
    /\ \A c \in Calls :
          (/\ EvaluateStep(c)
           /\ calls[c].itemId \in Ids(auctionItems)
           /\ LET item == auctionItems[find(auctionItems, calls[c].itemId)]
              IN /\ now < item.auctionEndTime
                 /\ lessOrEqual(calls[c].bidAmount, item.currentBid))
            => /\ calls'[c].result =
                     << Rejected("BID_TOO_LOW",
                          << auctionItems[find(auctionItems,
                                               calls[c].itemId)].currentBid >>) >>
               /\ auctionItems' = auctionItems
    /\ \A c \in Calls :
          (/\ RespondStep(c)
           /\ handlers[c].callback
           /\ Result(c).error = "BID_TOO_LOW")
            => /\ Len(handlers'[c].acks) = 1
               /\ ~handlers'[c].acks[1].success
               /\ handlers'[c].acks[1].error = "BID_TOO_LOW"
               /\ handlers'[c].acks[1].currentBid = Result(c).currentBid
               /\ Result(c).currentBid # <<>>

C11_TooLowForwarded == [][C11_Step]_vars

\* a bid of 250 was answered BID_TOO_LOW with current bid 250: the two bid
\* amounts are 250 and 450, so the rejected amount was equal to the current bid
C11_Witness ==
    \E c \in Calls :
        /\ handlers[c].pc = "done"
        /\ handlers[c].acks =
              << [success |-> FALSE, error |-> "BID_TOO_LOW",
                  currentBid |-> <<Num(250)>>, item |-> <<>>] >>

\* C12: placeBid for an itemId that no current item has returns
\* ITEM_NOT_FOUND and leaves every item as it was.
C12_Step ==
    \A c \in Calls :
        (EvaluateStep(c) /\ calls[c].itemId \notin Ids(auctionItems))
            => /\ calls'[c].result = << Rejected("ITEM_NOT_FOUND", <<>>) >>
               /\ auctionItems' = auctionItems

C12_UnknownItemRejected == [][C12_Step]_vars

\* a call on an unseeded id has returned ITEM_NOT_FOUND after another call
\* had raised an item's bid
C12_Witness ==
    /\ \E c \in Calls : Done(c) /\ Result(c).error = "ITEM_NOT_FOUND"
    /\ \E k \in 1..Len(auctionItems) : auctionItems[k].bidHistory # <<>>

\* a JS number that is zero or negative
NonPositive(v) == IsNumber(v) /\ v.num <= 0

\* C13: a bid whose amount is zero or negative is never accepted, and no
\* item's currentBid is ever zero or negative.
C13_NoNonPositiveBid ==
    /\ \A k \in 1..Len(auctionItems) : ~NonPositive(auctionItems[k].currentBid)
    /\ \A c \in Calls :
          (Done(c) /\ Result(c).success)
              => ~NonPositive(Result(c).item[1].currentBid)

\* C14: a bid whose amount is not a number (a string, NaN) is never accepted:
\* every item's currentBid is a number in every reachable state.
C14_CurrentBidIsNumber ==
    /\ \A k \in 1..Len(auctionItems) : IsNumber(auctionItems[k].currentBid)
    /\ \A c \in Calls :
          (Done(c) /\ Result(c).success)
              => IsNumber(Result(c).item[1].currentBid)

\* C15: every bid request, a request with a missing or malformed payload
\* included, ends in a typed outcome: neither the BID_PLACED handler nor
\* placeBid ends in an unhandled fault.
C15_NoUnhandledFault ==
    /\ \A c \in Calls : handlers[c].pc # "fault"
    /\ \A c \in Calls :
          Done(c) => Result(c).error \in {UNDEFINED, "ITEM_NOT_FOUND",
                                          "AUCTION_ENDED", "BID_TOO_LOW"}

\* C16: the gate is released on every exit path of placeBid: a Mutex is
\* locked only while a call that has not returned holds it, so no call that
\* has returned, with whatever outcome, has left a gate held.
C16_ReleasedOnReturn ==
    \A m \in MutexIds :
        mutexes[m].locked
            => \E c \in Calls : calls[c].pc = "holding" /\ calls[c].lock = m

\* two calls have returned, one accepted and one rejected after it had
\* waited for the gate, and every gate is free
C16_Witness ==
    /\ \E c, d \in Calls :
          /\ Done(c) /\ Result(c).success
          /\ Done(d) /\ Result(d).error = "AUCTION_ENDED" /\ calls[d].queued
    /\ \A m \in MutexIds : ~mutexes[m].locked

\* C17: calls on different items never block each other: a call waits only
\* behind a call that holds the gate of the same item, so a call on item Y
\* acquires and completes while another call holds the gate of item X.
C17_WaitsOnlyForSameItem ==
    \A c \in Calls :
        calls[c].pc = "waiting"
            => \E d \in Calls :
                  /\ calls[d].pc = "holding"
                  /\ calls[d].lock = calls[c].lock
                  /\ calls[d].itemId = calls[c].itemId

\* the first call still holds the gate of item-003 and the second call, made
\* after it, was granted the gate of item-006 at once and has been accepted
C17_Witness ==
    /\ calls[1].pc = "holding" /\ calls[1].itemId = "item-003"
    /\ Done(2) /\ ~calls[2].queued
    /\ Result(2).success /\ Result(2).item[1].id = "item-006"

\* handler c has run to its end / has run placeBid and holds its result
Responded(c) == handlers[c].pc = "done" /\ Done(c)
IsOutbid(e) == e.type = "OUTBID"
IsUpdateBid(e) == e.type = "UPDATE_BID"
OutbidsOf(c) == SelectSeq(handlers[c].events, IsOutbid)
UpdatesOf(c) == SelectSeq(handlers[c].events, IsUpdateBid)

\* C18: for an accepted bid an OUTBID event is emitted if and only if
\* previousBidderId is non-null and differs from the new highestBidderId; it
\* names the displaced bidder, the accepted amount and the new leader.  At
\* most one OUTBID is emitted per accepted bid and none for a rejected bid.
C18_OutbidIffDisplaced ==
    \A c \in Calls :
        IF /\ Responded(c)
           /\ Result(c).success
           /\ Result(c).previousBidderId # NULL
           /\ Result(c).previousBidderId # Result(c).item[1].highestBidderId
        THEN OutbidsOf(c) =
                << [type |-> "OUTBID",
                    itemId |-> Result(c).item[1].id,
                    outbidUserId |-> Result(c).previousBidderId,
                    newBid |-> Result(c).item[1].currentBid,
                    newBidderId |-> Result(c).item[1].highestBidderId] >>
        ELSE OutbidsOf(c) = <<>>

\* a bid of B that displaced A has been announced, while the first bid on the
\* item, which displaced nobody, was announced without an OUTBID
C18_Witness ==
    \E c, d \in Calls :
        /\ Responded(c) /\ Result(c).success
        /\ Result(c).previousBidderId = NULL /\ OutbidsOf(c) = <<>>
        /\ Responded(d) /\ Result(d).success
        /\ Len(OutbidsOf(d)) = 1
        /\ OutbidsOf(d)[1].outbidUserId = "A"
        /\ OutbidsOf(d)[1].newBidderId = "B"

\* C19: exactly one UPDATE_BID event is broadcast for every accepted bid and
\* none for a rejected bid (ITEM_NOT_FOUND, AUCTION_ENDED, BID_TOO_LOW,
\* invalid input).
C19_OneUpdatePerAcceptedBid ==
    \A c \in Calls :
        IF Responded(c) /\ Result(c).success
        THEN /\ Len(UpdatesOf(c)) = 1
             /\ UpdatesOf(c)[1].itemId = Result(c).item[1].id
             /\ UpdatesOf(c)[1].currentBid = Result(c).item[1].currentBid
             /\ UpdatesOf(c)[1].highestBidderId = Result(c).item[1].highestBidderId
             /\ UpdatesOf(c)[1].previousBidderId = Result(c).previousBidderId
        ELSE UpdatesOf(c) = <<>>

\* one request was accepted and broadcast once although nobody was displaced;
\* another was answered INVALID_DATA and broadcast nothing
C19_Witness ==
    \E c, d \in Calls :
        /\ Responded(c) /\ Result(c).success
        /\ Result(c).previousBidderId = NULL
        /\ Len(UpdatesOf(c)) = 1
        /\ handlers[d].pc = "done" /\ handlers[d].acks = <<invalidAck>>
        /\ handlers[d].events = <<>>

\* the events without the reading of the clock
Untimed(events) ==
    [k \in 1..Len(events) |->
        IF IsUpdateBid(events[k]) THEN [events[k] EXCEPT !.serverTime = 0]
        ELSE events[k]]

EqualOutcomes(c, d) ==
    /\ Responded(c) /\ Responded(d)
    /\ Result(c).success /\ Result(d).success
    /\ Result(c) = Result(d)

\* C20 as stated: the events are a function of the accepted outcome alone;
\* equal outcomes give identical UPDATE_BID and OUTBID events, the timestamp
\* of the UPDATE_BID included, whatever the clock is at fanout.
C20_EventsOfOutcomeAlone ==
    \A c, d \in Calls :
        EqualOutcomes(c, d) => handlers[c].events = handlers[d].events

\* C20, amended: the events are a function of the accepted outcome and of the
\* server clock at fanout; equal outcomes give events that are identical but
\* for the UPDATE_BID's serverTime, which is the clock when it is emitted.
C20_SameButForTime ==
    \A c, d \in Calls :
        EqualOutcomes(c, d)
            => Untimed(handlers[c].events) = Untimed(handlers[d].events)

C20_Step ==
    \A c \in Calls :
        (RespondStep(c) /\ Result(c).success)
            => /\ UpdatesOf(c)' # <<>>
               /\ UpdatesOf(c)'[1].serverTime = now

C20_EventsOfOutcomeAndClock == []C20_SameButForTime /\ [][C20_Step]_vars

\* two equal accepted outcomes were announced at different times
C20_Witness ==
    \E c, d \in Calls :
        /\ EqualOutcomes(c, d)
        /\ UpdatesOf(c)[1].serverTime < UpdatesOf(d)[1].serverTime
        /\ Untimed(handlers[c].events) = Untimed(handlers[d].events)

\* the larger of two numbers
Max(x, y) == IF x >= y THEN x ELSE y

\* call c, which had to queue, is about to be evaluated on an item whose
\* state is the one left by the accepted bid of call d
EvaluatedAfter(c, d) ==
    /\ c # d
    /\ calls[c].pc = "holding" /\ calls[c].queued
    /\ calls[c].itemId \in Ids(auctionItems)
    /\ Done(d) /\ Result(d).success
    /\ Result(d).item[1].id = calls[c].itemId
    /\ LET item == auctionItems[find(auctionItems, calls[c].itemId)]
       IN /\ item.currentBid = Result(d).item[1].currentBid
          /\ item.highestBidderId = Result(d).item[1].highestBidderId
          /\ item.bidHistory # <<>>
          /\ now < item.auctionEndTime

\* the entries of a bid history whose amount is x or y
PairEntries(h, x, y) == {n \in 1..Len(h) : h[n].amount \in {x, y}}

\* two different amounts above the current bid were dispatched concurrently
\* on one item, d's was accepted first and c's is evaluated in this step
C22_Pair(c, d) ==
    /\ EvaluatedAfter(c, d)
    /\ EvaluateStep(c)
    /\ calls[c].bidAmount # Result(d).item[1].currentBid

\* C22 as stated: for two bids of different amounts above the current bid
\* dispatched concurrently on one item (110 and 120 on 100; here 250 and 450
\* on 200), in both gate-acquisition orders the final currentBid is the
\* larger and bidHistory holds exactly one accepted entry for the pair.
C22_StepAsStated ==
    \A c, d \in Calls :
        C22_Pair(c, d)
            => LET k == find(auctionItems, calls[c].itemId)
                   x == Result(d).item[1].currentBid
                   y == calls[c].bidAmount
               IN /\ auctionItems'[k].currentBid = Num(Max(x.num, y.num))
                  /\ Cardinality(PairEntries(auctionItems'[k].bidHistory, x, y)) = 1

C22_OneEntryForPair == [][C22_StepAsStated]_vars

\* C22, amended: in both gate-acquisition orders the final currentBid is the
\* larger amount; bidHistory holds two accepted entries for the pair, the
\* smaller then the larger, when the smaller is evaluated first, and one
\* entry, the larger, when the larger is evaluated first (the smaller is
\* then rejected as BID_TOO_LOW).
C22_Step ==
    \A c, d \in Calls :
        C22_Pair(c, d)
            => LET k == find(auctionItems, calls[c].itemId)
                   x == Result(d).item[1].currentBid
                   y == calls[c].bidAmount
                   h == auctionItems[k].bidHistory
                   r == calls'[c].result[1]
               IN /\ auctionItems'[k].currentBid = Num(Max(x.num, y.num))
                  /\ IF x.num < y.num
                     THEN /\ r.success
                          /\ Len(auctionItems'[k].bidHistory) = Len(h) + 1
                          /\ auctionItems'[k].bidHistory[Len(h)].amount = x
                          /\ auctionItems'[k].bidHistory[Len(h) + 1].amount = y
                     ELSE /\ r.error = "BID_TOO_LOW"
                          /\ auctionItems'[k].bidHistory = h
                          /\ h[Len(h)].amount = x

C22_LargerWinsInBothOrders == [][C22_Step]_vars

\* both calls of a concurrent pair on item-003 were accepted, 250 then 450:
\* the history holds two entries for the pair
C22_Witness ==
    \E c, d \in Calls :
        /\ c # d /\ Done(c) /\ Done(d) /\ calls[c].queued /\ ~resetDuring
        /\ Result(d).success /\ Result(d).item[1].currentBid = Num(250)
        /\ Result(c).success /\ Result(c).item[1].currentBid = Num(450)
        /\ Result(c).item[1].id = "item-003" /\ Result(d).item[1].id = "item-003"
        /\ Len(auctionItems[find(auctionItems, "item-003")].bidHistory) = 2

\* C23: when two bidders bid the same amount, above the current bid, on the
\* same live item at the same instant, exactly one succeeds: the first to
\* acquire the item's lock is accepted and the other gets BID_TOO_LOW.
C23_Step ==
    /\ \A c, d \in Calls :
          (/\ EvaluatedAfter(c, d)
           /\ EvaluateStep(c)
           /\ calls[c].bidAmount = Result(d).item[1].currentBid
           /\ calls[c].bidderId # Result(d).item[1].highestBidderId)
            => /\ calls'[c].result =
                     << Rejected("BID_TOO_LOW", <<calls[c].bidAmount>>) >>
               /\ auctionItems' = auctionItems
    /\ \A c, d \in Calls :
          (/\ EvaluateStep(d)
           /\ ~calls[d].queued
           /\ calls[c].pc = "waiting" /\ calls[c].lock = calls[d].lock
           /\ calls[c].itemId = calls[d].itemId
           /\ calls[c].bidAmount = calls[d].bidAmount
           /\ calls[c].bidderId # calls[d].bidderId
           /\ calls[d].itemId \in Ids(auctionItems)
           /\ LET item == auctionItems[find(auctionItems, calls[d].itemId)]
              IN /\ now < item.auctionEndTime
                 /\ item.currentBid.num < calls[d].bidAmount.num)
            => calls'[d].result[1].success

C23_FirstOfEqualBidsWins == [][C23_Step]_vars

\* A's bid of 250 on live item-003 has been accepted; B's bid of 250, which
\* queued behind it, now holds the gate and meets a current bid of 250
C23_Witness ==
    /\ EvaluatedAfter(2, 1)
    /\ ~resetDuring
    /\ calls[2].itemId = "item-003"
    /\ calls[2].bidderId = "B" /\ calls[2].bidAmount = Num(250)
    /\ Result(1).item[1].highestBidderId = "A"
    /\ Result(1).item[1].currentBid = Num(250)

\* C27: placeBid evaluates its checks in a fixed order: item existence, then
\* deadline, then amount; a bid that is both past the deadline and not above
\* currentBid returns AUCTION_ENDED, never BID_TOO_LOW.
C27_Step ==
    \A c \in Calls :
        EvaluateStep(c)
            => LET k == find(auctionItems, calls[c].itemId)
                   r == calls'[c].result[1]
               IN IF calls[c].itemId \notin Ids(auctionItems)
                  THEN r.error = "ITEM_NOT_FOUND"
                  ELSE IF now >= auctionItems[k].auctionEndTime
                  THEN r.error = "AUCTION_ENDED"
                  ELSE IF lessOrEqual(calls[c].bidAmount,
                                      auctionItems[k].currentBid)
                  THEN r.error = "BID_TOO_LOW"
                  ELSE r.success

C28_OneGatePerItem ==
    ~resetDuring
        => \A c \in Calls :
              InFlight(c)
                  => /\ calls[c].lock = itemLocks[calls[c].itemId]
                     /\ \A d \in Calls :
                           (InFlight(d) /\ calls[d].itemId = calls[c].itemId)
                               => calls[d].lock = calls[c].lock

\* two first-time calls on item-999 are in flight, the second waiting on the
\* Mutex the first created
C28_Witness ==
    /\ ~resetDuring
    /\ calls[1].pc = "holding" /\ calls[1].itemId = "item-999"
    /\ calls[2].pc = "waiting" /\ calls[2].itemId = "item-999"
    /\ calls[2].lock = calls[1].lock

\* the fields of the public view that the model's items carry
ViewFields == {"id", "startingPrice", "currentBid", "highestBidderId",
               "auctionEndTime"}

\* the step is a call of getAllItems or getItemById
ReadStep == returned' # returned

\* C21: what getAllItems and getItemById return never contains bidHistory:
\* every item returned has the fields of the public view and no others.
C21_NoBidHistoryInView ==
    \A k \in 1..Len(returned.items) : DOMAIN returned.items[k] = ViewFields

\* the (currentBid, highestBidderId) pair an item shows when no bid on it is
\* half applied: the seed's, or that of its latest accepted bid
SettledPair(item) ==
    IF item.bidHistory = <<>>
    THEN <<item.startingPrice, NULL>>
    ELSE <<item.bidHistory[Len(item.bidHistory)].amount,
           item.bidHistory[Len(item.bidHistory)].bidderId>>

\* C29: every result of getAllItems or getItemById, taken at any point
\* between the steps of the bids, shows for each item a (currentBid,
\* highestBidderId) pair that is the item's state before or after an accepted
\* bid, never a new currentBid with an old highestBidderId or the reverse.
C29_Step ==
    ReadStep
        => \A n \in 1..Len(returned'.items) :
              LET k == find(auctionItems, returned'.items[n].id)
              IN /\ k # 0
                 /\ <<returned'.items[n].currentBid,
                      returned'.items[n].highestBidderId>>
                       = SettledPair(auctionItems[k])

C29_ReaderSeesWholeBids == [][C29_Step]_vars

\* the list was read after A's bid of 250 on item-003 was applied and while
\* another call holds the gate of item-003
C29_Witness ==
    /\ returned.op = "getAllItems"
    /\ returned.items = getAllItems(auctionItems)
    /\ returned.items[1].id = "item-003"
    /\ returned.items[1].currentBid = Num(250)
    /\ returned.items[1].highestBidderId = "A"
    /\ \E c \in Calls : calls[c].pc = "holding" /\ calls[c].itemId = "item-003"

\* the ids of a sequence of items, in order
IdsInOrder(items) == [k \in 1..Len(items) |-> items[k].id]

\* C30: getAllItems and getItemById are side-effect-free: they change no
\* item, no bid history and no gate, and getAllItems returns the items in the
\* seed's order on every call.
C30_Step ==
    ReadStep
        => /\ UNCHANGED <<auctionItems, itemLocks, mutexes, calls>>
           /\ returned'.op = "getAllItems"
                 => IdsInOrder(returned'.items)
                       = IdsInOrder(createSampleItems(0))

C30_ReadersChangeNothing == [][C30_Step]_vars

\* the list was read, in seed order, after a bid had been accepted and a
\* gate created, and the accepted bid is still in the store
C30_Witness ==
    /\ returned.op = "getAllItems"
    /\ IdsInOrder(returned.items) = <<"item-003", "item-006">>
    /\ returned.items = getAllItems(auctionItems)
    /\ \E k \in 1..Len(auctionItems) : auctionItems[k].bidHistory # <<>>
    /\ \E i \in ItemIds : itemLocks[i] # 0

\* the itemIds for which some placeBid has returned AUCTION_ENDED
EndedIds == {e[1] : e \in ended}

\* C24 as stated: once some placeBid on an item has returned AUCTION_ENDED,
\* no later placeBid on that itemId is ever accepted.
C24_StepAsStated ==
    \A c \in Calls :
        (EvaluateStep(c) /\ calls'[c].result[1].success)
            => calls[c].itemId \notin EndedIds

C24_EndedIsTerminal == [][C24_StepAsStated]_vars

\* C24, amended: AUCTION_ENDED is terminal for an item until resetItems seeds
\* the items again: once a placeBid on an item has returned AUCTION_ENDED no
\* later placeBid is accepted on that item under the same deadline, and only
\* resetItems gives an item another deadline.
C24_Step ==
    /\ \A c \in Calls :
          (EvaluateStep(c) /\ calls'[c].result[1].success)
            => <<calls[c].itemId,
                 auctionItems[find(auctionItems,
                                   calls[c].itemId)].auctionEndTime>> \notin ended
    /\ (\E k \in 1..Len(auctionItems) :
            auctionItems'[k].auctionEndTime # auctionItems[k].auctionEndTime)
          => auctionItems' = createSampleItems(now)

C24_EndedIsTerminalUntilReset == [][C24_Step]_vars

\* AUCTION_ENDED was returned for item-003 under its deadline 3, the items
\* were seeded again and a bid on item-003 has been accepted
C24_Witness ==
    /\ <<"item-003", 3>> \in ended
    /\ \E c \in Calls :
          /\ Done(c) /\ Result(c).success
          /\ Result(c).item[1].id = "item-003"
          /\ Result(c).item[1].auctionEndTime > 3

C25_Step ==
    /\ client' # client
          => UNCHANGED <<now, auctionItems, itemLocks, mutexes, calls>>
    /\ \A c \in Calls :
          EvaluateStep(c)
            => LET k == find(auctionItems, calls[c].itemId)
               IN calls'[c].result[1].success
                    <=> /\ k # 0
                        /\ now < auctionItems[k].auctionEndTime
                        /\ auctionItems[k].currentBid.num
                              < calls[c].bidAmount.num

C25_DecisionIgnoresClient == [][C25_Step]_vars

\* item-003 has passed its deadline on the server and a bid has been answered
\* AUCTION_ENDED, while the client's countdown for item-003 still runs
C25_Witness ==
    /\ now >= 3
    /\ auctionItems[find(auctionItems, "item-003")].auctionEndTime = 3
    /\ ~countdownEnded(client, 3)
    /\ \E c \in Calls : Done(c) /\ Result(c).error = "AUCTION_ENDED"

\* h is g with zero or more records appended
Extends(h, g) == Len(h) >= Len(g) /\ SubSeq(h, 1, Len(g)) = g

\* C31: between resets an item's bidHistory is append-only and
\* chronological: a step other than resetItems removes, reorders and modifies
\* no record, and the timestamps of the records never decrease along the
\* history.
C31_Step ==
    ~Reset
        => /\ Len(auctionItems') = Len(auctionItems)
           /\ \A k \in 1..Len(auctionItems) :
                 Extends(auctionItems'[k].bidHistory, auctionItems[k].bidHistory)

C31_Chronological ==
    \A k \in 1..Len(auctionItems) :
        \A j \in 2..Len(auctionItems[k].bidHistory) :
            auctionItems[k].bidHistory[j - 1].timestamp
                <= auctionItems[k].bidHistory[j].timestamp

C31_HistoryAppendOnly == [][C31_Step]_vars /\ []C31_Chronological

\* a history holds two records, the second appended at a later time than the
\* first, while a rejected bid has left no record
C31_Witness ==
    /\ \E k \in 1..Len(auctionItems) :
          /\ Len(auctionItems[k].bidHistory) = 2
          /\ auctionItems[k].bidHistory[1].timestamp
                < auctionItems[k].bidHistory[2].timestamp
          /\ auctionItems[k].bidHistory[1].amount = Num(250)
    /\ \A c \in Calls : Done(c)

\* the store, with the promise jobs run fairly: a continuation whose await
\* has been resolved is eventually run by the event loop
FairSpec == Spec /\ \A c \in Calls : WF_vars(Evaluate(c))

\* C32: under fair scheduling every placeBid call that was made acquires its
\* gate and returns; a call that has returned has exactly one outcome, which
\* never changes afterwards (it is not evaluated again); this holds for a
\* call that waits on a gate when resetItems clears the gate map as well.
C32_Once ==
    \A c \in Calls :
        /\ Done(c) => (calls'[c] = calls[c] /\ Len(calls[c].result) = 1)
        /\ ~Done(c) => calls[c].result = <<>>
        /\ calls[c].pc = "waiting" => calls'[c].pc \in {"waiting", "holding"}
        /\ calls[c].pc = "holding" => calls'[c].pc \in {"holding", "done"}

C32_EveryCallReturns ==
    /\ \A c \in Calls : (InFlight(c) ~> Done(c))
    /\ [][C32_Once]_vars

\* a call waits on a Mutex that resetItems has removed from the gate map
C32_Witness ==
    \E c \in Calls :
        /\ calls[c].pc = "waiting"
        /\ itemLocks[calls[c].itemId] = 0
        /\ \E d \in Calls : calls[d].pc = "holding" /\ calls[d].lock = calls[c].lock

\* C38: every accepted bid is applied to an item of the item set installed
\* when its try block runs: the item is looked up after the gate is acquired,
\* so a call made before a resetItems is evaluated against the item seeded by
\* that reset, which alone is changed, by one appended record.
C38_Step ==
    \A c \in Calls :
        (EvaluateStep(c) /\ calls'[c].result[1].success)
            => LET k == find(auctionItems, calls[c].itemId)
                   r == calls'[c].result[1]
               IN /\ k # 0
                  /\ now < auctionItems[k].auctionEndTime
                  /\ r.item[1].auctionEndTime = auctionItems[k].auctionEndTime
                  /\ Len(auctionItems') = Len(auctionItems)
                  /\ \A j \in 1..Len(auctionItems) :
                        IF j = k
                        THEN /\ auctionItems'[j].bidHistory
                                   = Append(auctionItems[j].bidHistory,
                                            [bidderId |-> calls[c].bidderId,
                                             amount |-> calls[c].bidAmount,
                                             timestamp |-> now])
                             /\ auctionItems'[j].auctionEndTime
                                   = auctionItems[j].auctionEndTime
                             /\ auctionItems'[j].startingPrice
                                   = auctionItems[j].startingPrice
                        ELSE auctionItems'[j] = auctionItems[j]

C38_AppliedToInstalledItem == [][C38_Step]_vars

\* a call made on an item whose auction had ended waited for the gate; the
\* items were seeded again meanwhile, and the bid was accepted on the new item
C38_Witness ==
    \E c \in Calls :
        /\ Done(c) /\ calls[c].queued /\ ~calls[c].live
        /\ Result(c).success
        /\ Result(c).item[1].auctionEndTime > MaxTime
        /\ auctionItems[find(auctionItems, Result(c).item[1].id)].bidHistory
              = <<[bidderId |-> Result(c).item[1].highestBidderId,
                   amount |-> Result(c).item[1].currentBid,
                   timestamp |-> MaxTime]>>

\* the itemIds that have a Mutex in the gate map
Gated == {i \in ItemIds : itemLocks[i] # 0}

\* C40: gates exist only for identifiers of items of the current item set,
\* so the gate map never holds more gates than there are items (a placeBid
\* that returns ITEM_NOT_FOUND has left no gate behind).
C40_GatesOnlyForItems ==
    /\ Gated \subseteq Ids(auctionItems)
    /\ Cardinality(Gated) <= Len(auctionItems)

\* the place of x in the sequence s, 0 if x is not in it
Place(s, x) == IF \E n \in 1..Len(s) : s[n] = x
               THEN CHOOSE n \in 1..Len(s) : s[n] = x
               ELSE 0

\* C33: an accepted bid is broadcast only after its critical section has
\* finished and its gate has been released: a handler that has emitted an
\* event is past placeBid, which has returned and holds no gate; and the
\* bidder's success acknowledgement is sent before the UPDATE_BID and before
\* any OUTBID of that bid.
C33_EmitAfterRelease ==
    \A c \in Calls :
        handlers[c].events # <<>>
            => /\ Done(c) /\ Result(c).success
               /\ \A m \in MutexIds :
                     \A n \in 1..Len(mutexes[m].queue) : mutexes[m].queue[n] # c
               /\ handlers[c].sent \in
                     {<<"UPDATE_BID">>, <<"UPDATE_BID", "OUTBID">>,
                      <<"ACK", "UPDATE_BID">>, <<"ACK", "UPDATE_BID", "OUTBID">>}
               /\ handlers[c].acks # <<>>
                     => /\ handlers[c].acks[1].success
                        /\ Place(handlers[c].sent, "ACK") = 1

C33_Step ==
    \A c \in Calls :
        handlers'[c].events # handlers[c].events
            => /\ Done(c) /\ calls'[c] = calls[c]
               /\ UNCHANGED <<auctionItems, mutexes, itemLocks>>

C33_BroadcastAfterRelease == []C33_EmitAfterRelease /\ [][C33_Step]_vars

\* B's bid, which waited for the gate and displaced A, was acknowledged, then
\* broadcast, then announced as OUTBID; every gate is free
C33_Witness ==
    \E c \in Calls :
        /\ handlers[c].pc = "done" /\ calls[c].queued
        /\ handlers[c].sent = <<"ACK", "UPDATE_BID", "OUTBID">>
        /\ handlers[c].acks[1].success
        /\ \A m \in MutexIds : ~mutexes[m].locked

\* handler c takes a BID_PLACED event in this step
BidPlacedStep(c) == handlers[c].pc = "idle" /\ handlers'[c].pc # "idle"

\* C34: a BID_PLACED request whose payload lacks itemId, bidAmount or
\* bidderId is answered INVALID_DATA before placeBid is called: placeBid is
\* called only with all three present, and a request that does not reach
\* placeBid acquires and creates no gate, changes no item and emits no event.
C34_Step ==
    /\ \A c \in Calls :
          BidPlacedStep(c)
            => IF handlers'[c].pc = "awaiting"
               THEN /\ ~missing(calls'[c].itemId)
                    /\ ~falsy(calls'[c].bidAmount)
                    /\ ~missing(calls'[c].bidderId)
               ELSE /\ UNCHANGED <<auctionItems, itemLocks, mutexes, calls>>
                    /\ handlers'[c].events = <<>>
                    /\ handlers'[c].pc = "done"
                          => handlers'[c].acks \in {<<>>, <<invalidAck>>}
    /\ \A c \in Calls :
          BidPlacedStep(c)
            => \A i \in PayloadItemIds, a \in TypedAmounts,
                  b \in PayloadBidders, f \in BOOLEAN :
                  (/\ missing(i) \/ falsy(a) \/ missing(b)
                   /\ BidPlaced(c, TRUE, i, a, b, f))
                    => /\ handlers'[c].pc = "done"
                       /\ handlers'[c].acks = IF f THEN <<invalidAck>>
                                              ELSE <<>>
                       /\ handlers'[c].events = <<>>
                       /\ UNCHANGED <<auctionItems, itemLocks, mutexes, calls>>

C35_Step ==
    /\ \A c \in Calls :
          (EvaluateStep(c) /\ calls'[c].result[1].success)
            => LET r == calls'[c].result[1]
                   k == find(auctionItems, calls[c].itemId)
               IN /\ r.item[1].currentBid = calls[c].bidAmount
                  /\ r.item[1].highestBidderId = calls[c].bidderId
                  /\ r.previousBidderId = auctionItems[k].highestBidderId
                  /\ handlers[c].pc = "awaiting"
                        => handlers[c].bidderId = calls[c].bidderId
    /\ \A c \in Calls :
          (RespondStep(c) /\ Result(c).success)
            => /\ Len(UpdatesOf(c)') = 1
               /\ UpdatesOf(c)'[1].itemId = Result(c).item[1].id
               /\ UpdatesOf(c)'[1].currentBid = Result(c).item[1].currentBid
               /\ UpdatesOf(c)'[1].highestBidderId = handlers[c].bidderId
               /\ UpdatesOf(c)'[1].previousBidderId = Result(c).previousBidderId

C35_PayloadIsSnapshot == [][C35_Step]_vars

\* A's bid of 250 on item-003 was broadcast as 250 by A after B's bid of 450
\* on item-003 had been accepted
C35_Witness ==
    LET item == auctionItems[find(auctionItems, "item-003")] IN
    /\ handlers[1].pc = "done" /\ Done(1) /\ Result(1).success
    /\ UpdatesOf(1)[1].itemId = "item-003"
    /\ UpdatesOf(1)[1].currentBid = Num(250)
    /\ UpdatesOf(1)[1].highestBidderId = "A"
    /\ Len(item.bidHistory) = 2
    /\ item.currentBid = Num(450) /\ item.highestBidderId = "B"
    /\ item.bidHistory[2].timestamp < UpdatesOf(1)[1].serverTime

\* the UPDATE_BID events that handler d has emitted for itemId
UpdatesFor(d, itemId) ==
    SelectSeq(handlers[d].events,
              LAMBDA e : IsUpdateBid(e) /\ e.itemId = itemId)

\* C36: the handlers emit in the order in which their bids were evaluated:
\* a call joins the job queue when its placeBid returns and the handlers
\* resume from the head of the queue; so, with no reset among the bids, an
\* UPDATE_BID emitted for an item carries a currentBid above that of every
\* UPDATE_BID emitted for the item before.
C36_Step ==
    /\ \A c \in Calls :
          (EvaluateStep(c) /\ handlers[c].pc = "awaiting")
            => jobs' = Append(jobs, c)
    /\ \A c \in Calls :
          RespondStep(c)
            => /\ jobs # <<>> /\ Head(jobs) = c
               /\ (Result(c).success /\ ~resetDuring)
                     => \A d \in Calls \ {c} :
                           LET before == UpdatesFor(d, Result(c).item[1].id)
                           IN \A n \in 1..Len(before) :
                                 before[n].currentBid.num
                                     < Result(c).item[1].currentBid.num

C36_BroadcastInAcceptanceOrder == [][C36_Step]_vars

\* two bids on item-003 were accepted, 250 then 450, with no reset, and both
\* were broadcast at the same reading of the clock
C36_Witness ==
    /\ ~resetDuring
    /\ handlers[1].pc = "done" /\ handlers[2].pc = "done" /\ jobs = <<>>
    /\ calls[2].queued
    /\ Len(UpdatesFor(1, "item-003")) = 1 /\ Len(UpdatesFor(2, "item-003")) = 1
    /\ UpdatesFor(1, "item-003")[1].currentBid = Num(250)
    /\ UpdatesFor(2, "item-003")[1].currentBid = Num(450)
    /\ UpdatesFor(1, "item-003")[1].serverTime
          = UpdatesFor(2, "item-003")[1].serverTime

\* C39: every BID_PLACED request that comes with an acknowledgement callback
\* is acknowledged exactly once on every path: a handler never sends two
\* acknowledgements, and a handler that still owes one (its callback not yet
\* called) is one that awaits placeBid, never one that has ended.
C39_OneAckPerCallback ==
    \A c \in Calls :
        /\ Len(handlers[c].acks) <= 1
        /\ handlers[c].callback => handlers[c].pc = "awaiting"

\* no bid is in flight and every UPDATE_BID emitted has been delivered to the
\* client, which has loaded the item list
Settled ==
    /\ \A c \in Calls : ~InFlight(c) /\ handlers[c].pc # "awaiting"
    /\ jobs = <<>>
    /\ client.inbox = <<>>
    /\ client.dash = "loaded"

\* C37: once every emitted UPDATE_BID has been delivered and no bid is in
\* flight, a connected client that has loaded the item list shows for every
\* item the currentBid and highestBidderId the server holds, after any
\* sequence of bids and resets.
C37_ClientShowsServerState ==
    Settled
        => \A k \in 1..Len(auctionItems) :
              \E n \in 1..Len(client.items) :
                  /\ client.items[n].id = auctionItems[k].id
                  /\ client.items[n].currentBid = auctionItems[k].currentBid
                  /\ client.items[n].highestBidderId
                        = auctionItems[k].highestBidderId

====
